---- MODULE Spec2Model ----
(***************************************************************************)
(* Model of the audio crawl pipeline of zcli-crawler:                      *)
(*   features/audio_crawl/tasks/tasks.py      task_crawler                 *)
(*   infrastructure/crawler/crawler.py        AudioCrawler, YtDlpProcessor *)
(*   infrastructure/repositories/base_repository.py  BaseRepository.add    *)
(*   app/dependencies.py                      get_db_session_sync          *)
(*   infrastructure/uow/uow.py                AbstractUnitOfWork           *)
(*                                                                         *)
(* The specifications share the variables:                                 *)
(*   SpecSearch   applies youtube_search to bounded provider responses     *)
(*   SpecFilter   applies filter_duplicate to bounded candidates and stores*)
(*   Spec         runs task_crawler end to end                             *)
(*   SpecHang     the same with external calls that may never return       *)
(*   SpecTwoRuns  two runs of task_crawler on one workspace                *)
(*   SpecUow      one unit-of-work context around a repository add         *)
(***************************************************************************)
EXTENDS Integers, Sequences, FiniteSets, TLC

VARIABLES
    store,      \* rows of table audio_crawls that are committed, in insert order
    objects,    \* keys present in the S3 bucket
    fs,         \* the part of the file system under settings.DATA_DIR
    runs,       \* one record per task_crawler invocation
    search,     \* one call of youtube_search: its inputs and what it returned
    dedup,      \* calls of filter_duplicate against the store
    uow         \* one unit-of-work context of CreateAudioCrawlUseCase.execute

vars == <<store, objects, fs, runs, search, dedup, uow>>

(***************************************************************************)
(* Bounds                                                                  *)
(***************************************************************************)
MaxDay == 1          \* calendar days 0..MaxDay, day 0 is 1970-01-01
MaxEntries == 2      \* longest provider response
MaxIds == 3          \* distinct source ids
MaxRows == 2         \* rows in the store before a call
MaxCands == 3        \* longest candidate list handed to filter_duplicate
MaxEvents == 2       \* status events the tool emits per post-processed item

SecondsPerDay == 86400

Days == 0..MaxDay
Ids == 1..MaxIds

(***************************************************************************)
(* Python values                                                           *)
(*   an optional value is <<>> (None / key absent) or <<v>>                *)
(*   a datetime is [day, sec]: the calendar day and the second within it   *)
(***************************************************************************)
None == <<>>
Some(v) == <<v>>

\* bool(x) of an optional int: None and 0 are falsy
TruthyInt(x) == Len(x) > 0 /\ x[1] # 0
\* bool(x) of an optional 8-digit date string: None is falsy
TruthyStr(x) == Len(x) > 0

\* datetime.strptime(s, "%Y%m%d") of the 8-digit form of day d: midnight of d
strptime(d) == [day |-> d, sec |-> 0]

\* datetime.utcfromtimestamp(t)
utcfromtimestamp(t) == [day |-> t \div SecondsPerDay, sec |-> t % SecondsPerDay]

\* a < b on datetimes
DtLess(a, b) == a.day < b.day \/ (a.day = b.day /\ a.sec < b.sec)

\* d.date()
DateOf(d) == d.day

\* datetime.now() at the time of the call
Now == [day |-> MaxDay, sec |-> 1]

(***************************************************************************)
(* Provider entries (the dicts yt-dlp returns under "entries")             *)
(***************************************************************************)
LiveStatuses == {"not_live", "is_live", "is_upcoming"}

Timestamps == {0, 1, MaxDay * SecondsPerDay, MaxDay * SecondsPerDay + 1}

\* what varies in an entry.  Line 184 reads the timestamp only when upload_date
\* is falsy, so next to an upload date the timestamp is absent or one value.
EntryShapes ==
    {e \in [live_status : LiveStatuses,
            upload_date : {None} \cup {Some(d) : d \in Days},
            timestamp : {None} \cup {Some(t) : t \in Timestamps}] :
        e.upload_date = None \/ e.timestamp \in {None, Some(1)}}

Entry(id, e) ==
    [id |-> id, live_status |-> e.live_status, upload_date |-> e.upload_date,
     timestamp |-> e.timestamp, extractor |-> "youtube", platform |-> ""]

\* a provider response lists distinct videos: entry k is video PosId(k)
PosId(k) == ((k - 1) % MaxIds) + 1

\* the responses of at most n entries with shapes from S
ResponsesOf(S, n) ==
    UNION {{[k \in 1..m |-> Entry(PosId(k), f[k])] : f \in [1..m -> S]} : m \in 0..n}

\* the str arguments upload_after / upload_before of youtube_search:
\*   "empty"  the default ''            (len # 8: the default bound is kept)
\*   "date"   the 8-digit form of day   (len = 8, parsed)
\*   "bad8"   8 characters, not a date  (len = 8, strptime raises ValueError)
DateArgs ==
    {[kind |-> "empty", day |-> 0], [kind |-> "bad8", day |-> 0]}
        \cup {[kind |-> "date", day |-> d] : d \in Days}

SeqsUpTo(S, n) == UNION {[1..k -> S] : k \in 0..n}

(***************************************************************************)
(* AudioCrawler.youtube_search                                             *)
(***************************************************************************)
\* lines 182-189: the datetime an entry resolves to, None when it is skipped
ResolveDate(v) ==
    IF ~TruthyStr(v.upload_date) /\ TruthyInt(v.timestamp)
        THEN Some(utcfromtimestamp(v.timestamp[1]))
    ELSE IF TruthyStr(v.upload_date)
        THEN Some(strptime(v.upload_date[1]))
    ELSE None

\* line 180 with "is_upcoming" left out of the tuple
IsLive_OnlyLive(v) == v.live_status = "is_live"

\* line 180
IsLive(v) == v.live_status \in {"is_live", "is_upcoming"}

\* line 190 without its second comparison
OutsideWindow_LowerOnly(d, after, before) == DtLess(d, after)

\* line 190
OutsideWindow(d, after, before) == DtLess(d, after) \/ DtLess(before, d)

\* lines 179-194, one iteration: does the loop append v
Keeps(v, after, before) ==
    /\ ~IsLive(v)
    /\ ResolveDate(v) # None
    /\ ~OutsideWindow(ResolveDate(v)[1], after, before)

\* line 193
WithPlatform(v) == [v EXCEPT !.platform = v.extractor]

\* lines 171, 179-196 with a kept entry put at the front of the list
RECURSIVE SearchLoop_Prepends(_, _, _, _)
SearchLoop_Prepends(entries, after, before, acc) ==
    IF entries = <<>> THEN acc
    ELSE SearchLoop_Prepends(Tail(entries), after, before,
                             IF Keeps(Head(entries), after, before)
                                 THEN <<WithPlatform(Head(entries))>> \o acc
                                 ELSE acc)

\* lines 171, 179-196: the loop over result["entries"]
RECURSIVE SearchLoop(_, _, _, _)
SearchLoop(entries, after, before, acc) ==
    IF entries = <<>> THEN acc
    ELSE SearchLoop(Tail(entries), after, before,
                    IF Keeps(Head(entries), after, before)
                        THEN Append(acc, WithPlatform(Head(entries)))
                        ELSE acc)

\* lines 167-168, 172-175
WindowAfter(arg) == IF arg.kind = "date" THEN strptime(arg.day) ELSE strptime(0)
WindowBefore(arg) == IF arg.kind = "date" THEN strptime(arg.day) ELSE Now

\* lines 161-196 with the error of extract_info (line 178) caught and an empty
\* list returned in its place
youtube_search_SwallowsProviderError(provider, upload_after, upload_before) ==
    IF upload_after.kind = "bad8" \/ upload_before.kind = "bad8"
        THEN [raised |-> TRUE, entries |-> <<>>]
        ELSE [raised |-> FALSE,
              entries |-> IF provider.ok
                              THEN SearchLoop(provider.entries,
                                              WindowAfter(upload_after),
                                              WindowBefore(upload_before), <<>>)
                              ELSE <<>>]

\* lines 161-196. provider = [ok, entries]: ok is FALSE when extract_info raises.
\* The value is [raised, entries]; raised means the call ended with an exception.
youtube_search(provider, upload_after, upload_before) ==
    IF upload_after.kind = "bad8" \/ upload_before.kind = "bad8" \/ ~provider.ok
        THEN [raised |-> TRUE, entries |-> <<>>]
        ELSE [raised |-> FALSE,
              entries |-> SearchLoop(provider.entries, WindowAfter(upload_after),
                                     WindowBefore(upload_before), <<>>)]

(***************************************************************************)
(* The metadata store (table audio_crawls) and AudioCrawler.filter_duplicate*)
(***************************************************************************)
\* a row: by = 0 for a row that was there before any run, else the run that wrote it
Row(id, url, deleted, r) ==
    [audio_id |-> id, audio_url |-> url, is_deleted |-> deleted, by |-> r]

\* rows that are in the table before any run: written through the CRUD API,
\* soft-deleted or not
Rows == {Row(i, <<i>>, d, 0) : i \in Ids, d \in BOOLEAN}

\* line 202: db.query(audio_id).filter(audio_id.in_(_vidIds)).all()
ExistingRows(rows, vidIds) ==
    {i \in 1..Len(rows) : rows[i].audio_id \in vidIds}

\* line 203
ExistingIds(rows, vidIds) == {rows[i].audio_id : i \in ExistingRows(rows, vidIds)}

\* lines 200-205 with the kept candidates collected in reverse
RECURSIVE ReverseSeq(_)
ReverseSeq(q) == IF q = <<>> THEN <<>> ELSE Append(ReverseSeq(Tail(q)), Head(q))

filter_duplicate_Reversed(videos, rows) ==
    LET vidIds == {videos[i].id : i \in 1..Len(videos)}
        existingIds == ExistingIds(rows, vidIds)
    IN  ReverseSeq(SelectSeq(videos, LAMBDA v : v.id \notin existingIds))

\* lines 200-205 with "in" for "not in" at line 204
filter_duplicate_Inverted(videos, rows) ==
    LET vidIds == {videos[i].id : i \in 1..Len(videos)}
        existingIds == ExistingIds(rows, vidIds)
    IN  SelectSeq(videos, LAMBDA v : v.id \in existingIds)

\* lines 200-205
filter_duplicate(videos, rows) ==
    LET vidIds == {videos[i].id : i \in 1..Len(videos)}
        existingIds == ExistingIds(rows, vidIds)
    IN  SelectSeq(videos, LAMBDA v : v.id \notin existingIds)

(***************************************************************************)
(* Values of the variables a specification does not use                    *)
(***************************************************************************)
RunIds == {1, 2}

SearchOff == [pc |-> "off"]
UowOff == [pc |-> "off"]
DedupOff == [pc |-> "off"]
FsEmpty == [exists |-> TRUE, stale |-> FALSE, wavsDir |-> FALSE, wavs |-> {}]
RunOff ==
    [pc |-> "off", platform |-> "youtube", videoEntries |-> <<>>,
     uniqueVideos |-> <<>>, urls |-> <<>>, i |-> 0, events |-> 0,
     finishedSeen |-> FALSE, batchEnd |-> "none",
     attempted |-> {}, transcoded |-> {}, hooked |-> {}, uploaded |-> {},
     failed |-> {}, coroutines |-> {}, summary |-> <<>>, result |-> "none",
     handled |-> <<>>, providerFailed |-> FALSE, queries |-> 0,
     failedAt |-> "none", fsAtStart |-> FsEmpty,
     taken |-> <<>>, batches |-> 0, lost |-> {}, removed |-> {},
     clearFailed |-> FALSE, lastStatus |-> "none"]

(***************************************************************************)
(* SpecSearch: one call of youtube_search on a bounded provider response   *)
(***************************************************************************)
Providers ==
    {[ok |-> TRUE, entries |-> es] : es \in ResponsesOf(EntryShapes, MaxEntries)}
        \cup {[ok |-> FALSE, entries |-> <<>>]}

InitSearch ==
    /\ uow = UowOff
    /\ store = <<>>
    /\ objects = {}
    /\ fs = FsEmpty
    /\ runs = [r \in RunIds |-> RunOff]
    /\ dedup = DedupOff
    /\ \E p \in Providers, a \in DateArgs, b \in DateArgs :
          search = [pc |-> "called", provider |-> p, upload_after |-> a,
                       upload_before |-> b, result |-> <<>>]

SearchReturns ==
    /\ search.pc = "called"
    /\ LET out == youtube_search(search.provider, search.upload_after,
                                 search.upload_before)
       IN  /\ ~out.raised
           /\ search' = [search EXCEPT !.pc = "returned", !.result = out.entries]
    /\ UNCHANGED <<uow, store, objects, fs, runs, dedup>>

SearchRaises ==
    /\ search.pc = "called"
    /\ youtube_search(search.provider, search.upload_after,
                      search.upload_before).raised
    /\ search' = [search EXCEPT !.pc = "raised"]
    /\ UNCHANGED <<uow, store, objects, fs, runs, dedup>>

NextSearch == SearchReturns \/ SearchRaises

SpecSearch == InitSearch /\ [][NextSearch]_vars

(***************************************************************************)
(* SpecFilter: filter_duplicate, the sink brought up to date with its      *)
(* output, and filter_duplicate again                                      *)
(***************************************************************************)
\* what youtube_search hands on: a kept entry of video id
Candidate(id) ==
    [id |-> id, live_status |-> "not_live", upload_date |-> Some(0),
     timestamp |-> None, extractor |-> "youtube", platform |-> "youtube"]

Candidates == {Candidate(id) : id \in Ids}

\* BaseRepository.add lines 175-184 under a committing unit of work: one row per
\* entity, audio_id taken from the entity, not deleted
RECURSIVE InsertAll(_, _)
InsertAll(rows, videos) ==
    IF videos = <<>> THEN rows
    ELSE InsertAll(Append(rows, Row(Head(videos).id, <<Head(videos).id>>, FALSE, 0)),
                   Tail(videos))

\* line 199 with the generator kept referenced, so that it is not finalized
GeneratorFinalized_Kept == FALSE

\* line 199: db = next(DefaultSessionDep()).  The generator object is a
\* temporary of the expression; CPython (which the source needs: the f-string
\* of line 116 is 3.12 syntax) finalizes it as soon as next() has returned,
\* which raises GeneratorExit at the yield of dependencies.py line 50 and runs
\* the finally of lines 51-53: db.close()
GeneratorFinalized == TRUE

\* the session after line 199
SessionAfterNext == IF GeneratorFinalized THEN "closed" ELSE "open"

\* line 202 takes a connection for the session again; lines 206-207 close it
SessionAfterFinally == "closed"

InitFilter ==
    /\ uow = UowOff
    /\ objects = {}
    /\ fs = FsEmpty
    /\ runs = [r \in RunIds |-> RunOff]
    /\ search = SearchOff
    /\ store \in SeqsUpTo(Rows, MaxRows)
    /\ \E c \in SeqsUpTo(Candidates, MaxCands), bad \in BOOLEAN :
          /\ bad => c # <<>>
          /\ dedup = [pc |-> "ready", candidates |-> c, store0 |-> store,
                      out1 |-> <<>>, out2 |-> <<>>,
                      malformed |-> bad, session |-> "none"]

FilterCall ==
    /\ dedup.pc = "ready"
    /\ ~dedup.malformed
    /\ dedup' = [dedup EXCEPT !.pc = "filtered",
                              !.session = SessionAfterFinally,
                              !.out1 = filter_duplicate(dedup.candidates, store)]
    /\ UNCHANGED <<uow, store, objects, fs, runs, search>>

\* line 202 raises (the database is unreachable): finally closes, the error propagates
FilterQueryFails ==
    /\ dedup.pc = "ready"
    /\ ~dedup.malformed
    /\ dedup' = [dedup EXCEPT !.pc = "raised", !.session = SessionAfterFinally]
    /\ UNCHANGED <<uow, store, objects, fs, runs, search>>

\* line 200 raises KeyError (a candidate without 'id'): the call is left before
\* the try of line 201 is entered, so its finally does not run
FilterMalformed ==
    /\ dedup.pc = "ready"
    /\ dedup.malformed
    /\ dedup' = [dedup EXCEPT !.pc = "raised", !.session = SessionAfterNext]
    /\ UNCHANGED <<uow, store, objects, fs, runs, search>>

\* line 199 raises: SessionLocal is None (dependencies.py lines 44-46) or
\* SessionLocal() fails; no session was made
FilterNoSession ==
    /\ dedup.pc = "ready"
    /\ dedup' = [dedup EXCEPT !.pc = "raised"]
    /\ UNCHANGED <<uow, store, objects, fs, runs, search>>

SinkInsert ==
    /\ dedup.pc = "filtered"
    /\ store' = InsertAll(store, dedup.out1)
    /\ dedup' = [dedup EXCEPT !.pc = "synced"]
    /\ UNCHANGED <<uow, objects, fs, runs, search>>

FilterAgain ==
    /\ dedup.pc = "synced"
    /\ dedup' = [dedup EXCEPT !.pc = "refiltered",
                              !.session = SessionAfterFinally,
                              !.out2 = filter_duplicate(dedup.out1, store)]
    /\ UNCHANGED <<uow, store, objects, fs, runs, search>>

\* a second writer that had filtered the same candidates before the rows of the
\* first were in the table now adds its records: audio_id carries no unique
\* constraint (audio_crawl_model.py line 13) and BaseRepository.add checks
\* nothing, so the rows are accepted
SinkInsertAgain ==
    /\ dedup.pc \in {"synced", "refiltered"}
    /\ dedup.out1 # <<>>
    /\ store' = InsertAll(store, dedup.out1)
    /\ dedup' = [dedup EXCEPT !.pc = "duplicated"]
    /\ UNCHANGED <<uow, objects, fs, runs, search>>

NextFilter ==
    \/ FilterCall
    \/ FilterQueryFails
    \/ FilterMalformed
    \/ FilterNoSession
    \/ SinkInsert
    \/ FilterAgain
    \/ SinkInsertAgain

SpecFilter == InitFilter /\ [][NextFilter]_vars

(***************************************************************************)
(* Spec: task_crawler end to end                                           *)
(*                                                                         *)
(* The download tool (yt-dlp) is the environment.  It takes the urls of    *)
(* the batch in order; for each it either fails to download or transcode,  *)
(* or writes DATA_DIR/wavs/<id>.wav and then calls the registered          *)
(* postprocessor hook with status events, of which at least one is         *)
(* "finished".  An exception that leaves the hook lands in the tool.       *)
(***************************************************************************)
Statuses == {"started", "finished"}

\* ydl_opts["ignoreerrors"], line 247: with it the tool reports the error of an
\* item and goes on with the next url; without it the error leaves ydl.download
IgnoreErrors_Off == FALSE

IgnoreErrors == TRUE

\* os.path.join on paths given as sequences of components
PathJoin(a, b) == a \o b

\* lines 121-123: the file name <id>.<codec> of the transcoded file
Filename(id) == <<id>>

\* line 129: Key=filename
UploadKey(id) == Filename(id)

\* lines 124, 132: s3_prefix = join("", filename); audio_url = join(s3_prefix, filename)
AudioUrl(id) == PathJoin(PathJoin(<<>>, Filename(id)), Filename(id))

\* lines 135-147: the entity handed to repo.add
Model(r, id) == Row(id, AudioUrl(id), FALSE, r)

\* line 148 with the row written and committed before the upload is attempted
post_hook_store_InsertFirst(rows, model, uploadOk, buildOk) == Append(rows, model)

\* line 148 as an upsert that writes the entity over the first row of the table
RepoAddCall_Overwrites(rows, model) ==
    IF rows = <<>> THEN <<model>> ELSE [rows EXCEPT ![1] = model]

\* line 148: BaseRepository.add is a coroutine function (base_repository.py
\* line 141) and post_hook calls it without awaiting it, so its body (lines
\* 142-193: session.add, flush, refresh) never runs; nothing commits either
RepoAddCall(rows, model) == rows

\* lines 120-148: what a call of post_hook with status "finished" leaves in the
\* table, given whether upload_file returned and whether the entity was built
post_hook_store(rows, model, uploadOk, buildOk) ==
    IF uploadOk /\ buildOk THEN RepoAddCall(rows, model) ELSE rows

\* what the provider returns to a pipeline run: entries dated day 0, live or
\* not, or not live and without any date
PipelineShapes ==
    {e \in EntryShapes :
        /\ e.timestamp = None
        /\ \/ e.upload_date = Some(0) /\ e.live_status \in {"not_live", "is_live"}
           \/ e.upload_date = None /\ e.live_status = "not_live"}

PipelineProviders ==
    {[ok |-> TRUE, entries |-> es] : es \in ResponsesOf(PipelineShapes, MaxEntries)}
        \cup {[ok |-> FALSE, entries |-> <<>>]}

\* the table before a run: at most MaxRows rows, here of different source ids
PipelineStores ==
    {q \in SeqsUpTo(Rows, MaxRows) :
        \A k \in 1..Len(q) - 1 : q[k].audio_id < q[k + 1].audio_id}

FsStale == [exists |-> TRUE, stale |-> TRUE, wavsDir |-> TRUE, wavs |-> {1}]

DefaultArg == [kind |-> "empty", day |-> 0]

RunIdle(platform) == [RunOff EXCEPT !.pc = "idle", !.platform = platform]

ActiveRuns == {1}

Init ==
    /\ uow = UowOff
    /\ store \in PipelineStores
    /\ objects = {}
    /\ fs \in {FsEmpty, FsStale}
    /\ search = SearchOff
    /\ dedup = DedupOff
    /\ \E pf \in {"youtube", "bilibili"} :
          runs = [r \in RunIds |-> IF r \in ActiveRuns THEN RunIdle(pf) ELSE RunOff]

\* the task ends with an exception: celery records FAILURE
Raise(r) == [runs EXCEPT ![r].pc = "failed", ![r].result = "raised"]

\* the same, with the call of task_crawler that raised (tasks.py lines 8-12)
RaiseAt(r, stage) == [Raise(r) EXCEPT ![r].failedAt = stage]

\* tasks.py lines 7-8, crawler.py lines 154-159: create_application()
\*   cleared: rmtree(DATA_DIR, ignore_errors=True) removed the tree (else the
\*            error was ignored and the tree is still there)
\*   made:    makedirs(DATA_DIR, exist_ok=True) could create the directory
TaskStart(r) ==
    /\ runs[r].pc = "idle"
    /\ \E cleared \in BOOLEAN, made \in BOOLEAN :
          LET afterRm == IF fs.exists /\ cleared
                            THEN [exists |-> FALSE, stale |-> FALSE,
                                  wavsDir |-> FALSE, wavs |-> {}]
                            ELSE fs
          IN  IF afterRm.exists \/ made
                  THEN /\ fs' = [afterRm EXCEPT !.exists = TRUE]
                       /\ runs' = [runs EXCEPT
                                      ![r].pc = "prepared",
                                      ![r].removed = fs.wavs \ afterRm.wavs,
                                      ![r].clearFailed = fs.exists /\ ~cleared,
                                      ![r].fsAtStart = fs]
                  ELSE /\ fs' = afterRm
                       /\ runs' = [RaiseAt(r, "create_application") EXCEPT
                                      ![r].removed = fs.wavs \ afterRm.wavs,
                                      ![r].clearFailed = fs.exists /\ ~cleared,
                                      ![r].fsAtStart = fs]
    /\ UNCHANGED <<uow, store, objects, search, dedup>>

\* tasks.py lines 9, 13: any other platform
TaskNoop(r) ==
    /\ runs[r].pc = "prepared"
    /\ runs[r].platform # "youtube"
    /\ runs' = [runs EXCEPT ![r].pc = "done", ![r].result = "True"]
    /\ UNCHANGED <<uow, store, objects, fs, search, dedup>>

\* tasks.py line 10: youtube_search(f"{keyword} {domain}", limit)
TaskSearch(r) ==
    /\ runs[r].pc = "prepared"
    /\ runs[r].platform = "youtube"
    /\ \E p \in PipelineProviders :
          LET out == youtube_search(p, DefaultArg, DefaultArg)
          IN  runs' = IF out.raised
                          THEN [RaiseAt(r, "youtube_search") EXCEPT
                                  ![r].providerFailed = ~p.ok]
                          ELSE [runs EXCEPT ![r].pc = "searched",
                                            ![r].providerFailed = ~p.ok,
                                            ![r].videoEntries = out.entries]
    /\ UNCHANGED <<uow, store, objects, fs, search, dedup>>

\* tasks.py line 11: filter_duplicate(videoEntries); the query of line 202 may raise
TaskFilter(r) ==
    /\ runs[r].pc = "searched"
    /\ \E queryOk \in BOOLEAN :
          runs' = IF ~queryOk
                      THEN [RaiseAt(r, "filter_duplicate") EXCEPT
                              ![r].queries = @ + 1]
                      ELSE [runs EXCEPT
                          ![r].pc = "filtered",
                          ![r].queries = @ + 1,
                          ![r].uniqueVideos =
                              filter_duplicate(runs[r].videoEntries, store)]
    /\ UNCHANGED <<uow, store, objects, fs, search, dedup>>

\* tasks.py line 12 with the result of youtube_search handed to the download
DispatchedEntries_Unfiltered(rec) == rec.videoEntries

\* tasks.py line 12: download_and_upload_audio(uniqueIds)
DispatchedEntries(rec) == rec.uniqueVideos

\* crawler.py lines 225-260: the wavs directory is removed and made again (either
\* may raise OSError, which leaves the task), the processor and the url list are built
DownloadSetup(r) ==
    /\ runs[r].pc = "filtered"
    /\ \E ok \in BOOLEAN :
          IF ok
              THEN /\ fs' = [fs EXCEPT !.wavsDir = TRUE, !.wavs = {}]
                   /\ runs' = [runs EXCEPT
                          ![r].pc = "batch",
                          ![r].batches = @ + 1,
                          ![r].removed = @ \cup fs.wavs,
                          ![r].i = 1,
                          ![r].urls =
                              [k \in 1..Len(DispatchedEntries(runs[r])) |->
                                  DispatchedEntries(runs[r])[k].id]]
              ELSE /\ fs' = fs
                   /\ runs' = RaiseAt(r, "download_and_upload_audio")
    /\ UNCHANGED <<uow, store, objects, search, dedup>>

\* lines 261-268 with an empty url list treated as an error that leaves the task
BatchEnds_RaisesOnEmpty(rec, how) ==
    IF rec.urls = <<>>
        THEN [rec EXCEPT !.pc = "failed", !.batchEnd = how, !.result = "raised"]
        ELSE [rec EXCEPT !.pc = "done", !.batchEnd = how, !.result = "True"]

\* lines 261-268: an exception out of YoutubeDL(...) or ydl.download is printed;
\* download_and_upload_audio returns None and task_crawler returns True
BatchEnds(rec, how) ==
    [rec EXCEPT !.pc = "done", !.batchEnd = how, !.result = "True"]

\* the tool after an error in item i, with the item tried a second time
AfterItemError_RetriesOnce(rec) ==
    IF Cardinality({n \in 1..Len(rec.taken) : rec.taken[n] = rec.i}) < 2
        THEN [rec EXCEPT !.pc = "batch"]
        ELSE [rec EXCEPT !.pc = "batch", !.i = rec.i + 1]

\* the tool after an error in item i
AfterItemError(rec) ==
    IF IgnoreErrors
        THEN [rec EXCEPT !.pc = "batch", !.i = rec.i + 1]
        ELSE BatchEnds(rec, "item_error")

\* lines 262-263 raise before any url is taken (the tool cannot be set up)
ToolInvocationFails(r) ==
    /\ runs[r].pc = "batch"
    /\ runs[r].i = 1
    /\ runs' = [runs EXCEPT ![r] = BatchEnds(runs[r], "invocation_error")]
    /\ UNCHANGED <<uow, store, objects, fs, search, dedup>>

\* the tool cannot download or transcode url i
ToolItemFails(r) ==
    /\ runs[r].pc = "batch"
    /\ runs[r].i <= Len(runs[r].urls)
    /\ runs' = [runs EXCEPT ![r] =
          AfterItemError([runs[r] EXCEPT
              !.taken = Append(@, runs[r].i),
              !.attempted = @ \cup {runs[r].i},
              !.failed = @ \cup {runs[r].i}])]
    /\ UNCHANGED <<uow, store, objects, fs, search, dedup>>

\* the tool wrote DATA_DIR/wavs/<id>.wav for url i (outtmpl, line 246)
ToolItemTranscoded(r) ==
    /\ runs[r].pc = "batch"
    /\ runs[r].i <= Len(runs[r].urls)
    /\ fs' = [fs EXCEPT !.wavs = @ \cup {runs[r].urls[runs[r].i]}]
    /\ runs' = [runs EXCEPT
          ![r].pc = "hooks",
          ![r].events = 0,
          ![r].finishedSeen = FALSE,
          ![r].taken = Append(@, runs[r].i),
          ![r].attempted = @ \cup {runs[r].i},
          ![r].transcoded = @ \cup {runs[r].i}]
    /\ UNCHANGED <<uow, store, objects, search, dedup>>

\* line 117 with the test left out: every status is handled as "finished"
IsFinished_AnyStatus(status) == TRUE

\* line 117: data["status"] != "finished" returns
IsFinished(status) == status = "finished"

\* lines 114-119: post_hook called with a status other than "finished"
HookIgnored(r) ==
    /\ runs[r].pc = "hooks"
    /\ runs[r].events < MaxEvents
    /\ runs[r].finishedSeen \/ runs[r].events + 1 < MaxEvents
    /\ \E status \in Statuses :
          /\ ~IsFinished(status)
          /\ runs' = [runs EXCEPT ![r].events = @ + 1,
                                  ![r].lastStatus = status]
    /\ UNCHANGED <<uow, store, objects, fs, search, dedup>>

\* lines 126-127 with the upload going through whether or not the file is there
FilePresent_Always(id) == TRUE

\* lines 126-127: upload_file reads Filename=local_path, DATA_DIR/wavs/<id>.wav
FilePresent(id) == id \in fs.wavs

\* lines 120-130: status "finished", upload_file raises (the local file is not
\* there, or S3 refuses); the exception leaves post_hook
HookUploadFails(r) ==
    /\ runs[r].pc = "hooks"
    /\ runs[r].events < MaxEvents
    /\ \E status \in Statuses :
          /\ IsFinished(status)
          /\ LET k == runs[r].i
                 id == runs[r].urls[k]
             IN  /\ store' = post_hook_store(store, Model(r, id), FALSE, FALSE)
                 /\ runs' = [runs EXCEPT ![r] =
                       AfterItemError([runs[r] EXCEPT
                           !.events = @ + 1,
                           !.lastStatus = status,
                           !.handled = Append(@, k),
                           !.hooked = @ \cup {k},
                           !.lost = @ \cup (IF FilePresent(id) THEN {} ELSE {k}),
                           !.failed = @ \cup {k}])]
    /\ UNCHANGED <<uow, objects, fs, search, dedup>>

\* lines 120-147: the upload is done, building the entity raises (a key missing
\* from info_dict, a field the entity rejects); the exception leaves post_hook
HookBuildFails(r) ==
    /\ runs[r].pc = "hooks"
    /\ runs[r].events < MaxEvents
    /\ \E status \in Statuses :
          /\ IsFinished(status)
          /\ LET k == runs[r].i
                 id == runs[r].urls[k]
             IN  /\ FilePresent(id)
                 /\ objects' = objects \cup {UploadKey(id)}
                 /\ store' = post_hook_store(store, Model(r, id), TRUE, FALSE)
                 /\ runs' = [runs EXCEPT ![r] =
                       AfterItemError([runs[r] EXCEPT
                           !.events = @ + 1,
                           !.lastStatus = status,
                           !.handled = Append(@, k),
                           !.hooked = @ \cup {k},
                           !.uploaded = @ \cup {k},
                           !.failed = @ \cup {k}])]
    /\ UNCHANGED <<uow, fs, search, dedup>>

\* lines 120-148: the upload is done, the entity built, repo.add called
HookCompletes(r) ==
    /\ runs[r].pc = "hooks"
    /\ runs[r].events < MaxEvents
    /\ \E status \in Statuses :
          /\ IsFinished(status)
          /\ LET k == runs[r].i
                 id == runs[r].urls[k]
             IN  /\ FilePresent(id)
                 /\ objects' = objects \cup {UploadKey(id)}
                 /\ store' = post_hook_store(store, Model(r, id), TRUE, TRUE)
                 /\ runs' = [runs EXCEPT
                       ![r].events = @ + 1,
                       ![r].lastStatus = status,
                       ![r].finishedSeen = TRUE,
                       ![r].handled = Append(@, k),
                       ![r].hooked = @ \cup {k},
                       ![r].uploaded = @ \cup {k},
                       ![r].coroutines = @ \cup {Model(r, id)}]
    /\ UNCHANGED <<uow, fs, search, dedup>>

\* the tool is through with item i and takes the next url
ToolItemDone(r) ==
    /\ runs[r].pc = "hooks"
    /\ runs[r].finishedSeen
    /\ runs' = [runs EXCEPT ![r].pc = "batch", ![r].i = @ + 1]
    /\ UNCHANGED <<uow, store, objects, fs, search, dedup>>

\* lines 263, 268, tasks.py line 13: ydl.download returns, the task returns True
BatchReturns(r) ==
    /\ runs[r].pc = "batch"
    /\ runs[r].i > Len(runs[r].urls)
    /\ runs' = [runs EXCEPT ![r] = BatchEnds(runs[r], "returned")]
    /\ UNCHANGED <<uow, store, objects, fs, search, dedup>>

Next ==
    \E r \in ActiveRuns :
        \/ TaskStart(r)
        \/ TaskNoop(r)
        \/ TaskSearch(r)
        \/ TaskFilter(r)
        \/ DownloadSetup(r)
        \/ ToolInvocationFails(r)
        \/ ToolItemFails(r)
        \/ ToolItemTranscoded(r)
        \/ HookIgnored(r)
        \/ HookUploadFails(r)
        \/ HookBuildFails(r)
        \/ HookCompletes(r)
        \/ ToolItemDone(r)
        \/ BatchReturns(r)

Spec == Init /\ [][Next]_vars

(***************************************************************************)
(* SpecHang: task_crawler with external calls that may never return.       *)
(* Neither ydl_opts of youtube_search (lines 162-166) nor that of          *)
(* download_and_upload_audio (lines 234-249) sets a timeout, and no call   *)
(* is run under one, so a call that hangs keeps the task where it is.      *)
(* The worker keeps executing the task: weak fairness on its steps.        *)
(***************************************************************************)
\* line 178: extract_info never returns
TaskSearchHangs(r) ==
    /\ runs[r].pc = "prepared"
    /\ runs[r].platform = "youtube"
    /\ runs' = [runs EXCEPT ![r].pc = "hung_search"]
    /\ UNCHANGED <<uow, store, objects, fs, search, dedup>>

\* line 263: the download or the transcoding of url i never returns
ToolItemHangs(r) ==
    /\ runs[r].pc = "batch"
    /\ runs[r].i <= Len(runs[r].urls)
    /\ runs' = [runs EXCEPT ![r].pc = "hung_download",
                            ![r].taken = Append(@, runs[r].i),
                            ![r].attempted = @ \cup {runs[r].i}]
    /\ UNCHANGED <<uow, store, objects, fs, search, dedup>>

NextHang ==
    \/ Next
    \/ \E r \in ActiveRuns : TaskSearchHangs(r)
    \/ \E r \in ActiveRuns : ToolItemHangs(r)

SpecHang == Init /\ [][NextHang]_vars /\ WF_vars(NextHang)

\* task_crawler under the same fairness when every external call returns
SpecFair == Init /\ [][Next]_vars /\ WF_vars(Next)

(***************************************************************************)
(* SpecTwoRuns: two task_crawler invocations at the same time.  Both       *)
(* workers read settings.DATA_DIR (config.py line 116), so the two runs    *)
(* share fs; each step of either run is the step it makes on its own.      *)
(***************************************************************************)
InitTwoRuns ==
    /\ uow = UowOff
    /\ store = <<>>
    /\ objects = {}
    /\ fs = FsEmpty
    /\ search = SearchOff
    /\ dedup = DedupOff
    /\ runs = [r \in RunIds |-> RunIdle("youtube")]

NextTwoRuns ==
    \E r \in RunIds :
        \/ TaskStart(r)
        \/ TaskSearch(r)
        \/ TaskFilter(r)
        \/ DownloadSetup(r)
        \/ ToolInvocationFails(r)
        \/ ToolItemFails(r)
        \/ ToolItemTranscoded(r)
        \/ HookIgnored(r)
        \/ HookUploadFails(r)
        \/ HookBuildFails(r)
        \/ HookCompletes(r)
        \/ ToolItemDone(r)
        \/ BatchReturns(r)

SpecTwoRuns == InitTwoRuns /\ [][NextTwoRuns]_vars

(***************************************************************************)
(* SpecUow: CreateAudioCrawlUseCase.execute lines 35-38,                   *)
(*     async with self._uow:                                               *)
(*         new_obj_entity = await self._repository.add(new_entity)         *)
(*         await self._uow.commit()                                        *)
(* with AbstractUnitOfWork.__aenter__ / __aexit__ around the body.         *)
(* uow.pending are the rows flushed in the open transaction; a commit      *)
(* makes them rows of the store, a rollback drops them.                    *)
(***************************************************************************)
\* uow.py lines 25-46 with the commit error logged and not raised again
aexit_SwallowsCommitError(bodyRaised, commitOk) ==
    IF bodyRaised
        THEN [calls |-> <<"rollback">>, raises |-> "body"]
    ELSE IF commitOk
        THEN [calls |-> <<"commit">>, raises |-> "none"]
    ELSE [calls |-> <<"commit", "rollback">>, raises |-> "none"]

\* uow.py lines 25-46, __aexit__: the calls it makes on the unit of work and
\* the exception that leaves the context ("body": the exception of the body,
\* which __aexit__ does not suppress; "commit": the error of its own commit).
\* An error of rollback is logged and dropped (lines 31-32, 43-44).
aexit(bodyRaised, commitOk) ==
    IF bodyRaised
        THEN [calls |-> <<"rollback">>, raises |-> "body"]
    ELSE IF commitOk
        THEN [calls |-> <<"commit">>, raises |-> "none"]
    ELSE [calls |-> <<"commit", "rollback">>, raises |-> "commit"]

InitUow ==
    /\ objects = {}
    /\ fs = FsEmpty
    /\ runs = [r \in RunIds |-> RunOff]
    /\ search = SearchOff
    /\ dedup = DedupOff
    /\ store \in PipelineStores
    /\ \E id \in Ids :
          uow = [pc |-> "start", entity |-> id, store0 |-> store,
                 pending |-> <<>>, bodyExc |-> "none", calls |-> <<>>,
                 exitCommitOk |-> TRUE, rollbackOk |-> TRUE,
                 tx |-> "none", raises |-> "none"]

\* uow.py lines 18-23, __aenter__
UowEnter ==
    /\ uow.pc = "start"
    /\ uow' = [uow EXCEPT !.pc = "body", !.tx = "open"]
    /\ UNCHANGED <<store, objects, fs, runs, search, dedup>>

\* create_audio_crawl.py line 36: BaseRepository.add flushes the row, or raises
BodyAdd ==
    /\ uow.pc = "body"
    /\ \E ok \in BOOLEAN :
          uow' = IF ok
                     THEN [uow EXCEPT
                             !.pc = "added",
                             !.pending = <<Row(uow.entity, <<uow.entity>>, FALSE, 0)>>]
                     ELSE [uow EXCEPT !.pc = "exit", !.bodyExc = "add"]
    /\ UNCHANGED <<store, objects, fs, runs, search, dedup>>

\* create_audio_crawl.py line 37: the commit of the body (uow.py lines 71-78)
BodyCommit ==
    /\ uow.pc = "added"
    /\ \E ok \in BOOLEAN :
          IF ok
              THEN /\ store' = store \o uow.pending
                   /\ uow' = [uow EXCEPT !.pc = "exit", !.pending = <<>>,
                                         !.tx = "committed"]
              ELSE /\ store' = store
                   /\ uow' = [uow EXCEPT !.pc = "exit", !.bodyExc = "commit"]
    /\ UNCHANGED <<objects, fs, runs, search, dedup>>

\* uow.py lines 25-46, __aexit__, with its commit and its rollback succeeding or not
UowExit ==
    /\ uow.pc = "exit"
    /\ \E commitOk \in BOOLEAN, rollbackOk \in BOOLEAN :
          LET out == aexit(uow.bodyExc # "none", commitOk)
              commits == out.calls = <<"commit">>
              rollsBack == out.calls[Len(out.calls)] = "rollback"
          IN  /\ store' = IF commits THEN store \o uow.pending ELSE store
              /\ uow' = [uow EXCEPT
                    !.pc = "ended",
                    !.calls = out.calls,
                    !.raises = out.raises,
                    !.exitCommitOk = commitOk,
                    !.rollbackOk = rollbackOk,
                    !.pending = IF commits \/ (rollsBack /\ rollbackOk)
                                    THEN <<>> ELSE @,
                    !.tx = IF commits THEN "committed"
                           ELSE IF rollbackOk THEN "rolled_back"
                           ELSE "broken"]
    /\ UNCHANGED <<objects, fs, runs, search, dedup>>

NextUow == UowEnter \/ BodyAdd \/ BodyCommit \/ UowExit

SpecUow == InitUow /\ [][NextUow]_vars

(***************************************************************************)
(* Claims about a pipeline run (Spec)                                      *)
(***************************************************************************)
\* the rows run r wrote for source id
RowsBy(r, id) ==
    {n \in 1..Len(store) : store[n].by = r /\ store[n].audio_id = id}

\* the items of run r that were downloaded, transcoded and uploaded, none of
\* whose steps raised
Succeeded(r) == (runs[r].transcoded \cap runs[r].uploaded) \ runs[r].failed

\* the run is over and its batch call came back from the tool
Completed(r) == runs[r].pc = "done" /\ runs[r].batchEnd = "returned"

\* C1: for every candidate downloaded, transcoded and uploaded without error,
\* exactly one record is in the store at the end of the run, carrying the
\* candidate's source id.
C1_OneRecordPerSuccess ==
    \A r \in RunIds :
        Completed(r) =>
            \A k \in Succeeded(r) :
                Cardinality(RowsBy(r, runs[r].urls[k])) = 1

\* C2: a record of run r for item X is in the store only if the upload of X
\* by run r had completed.
C2_NoRecordWithoutUpload ==
    \A r \in RunIds :
        \A n \in 1..Len(store) :
            store[n].by = r =>
                \E k \in runs[r].uploaded : runs[r].urls[k] = store[n].audio_id

\* C2 witness: the upload of an item failed in the hook, the run went on to its
\* end, and the store holds no record of that item
C2_Witness ==
    \E r \in RunIds :
        /\ Completed(r)
        /\ \E k \in runs[r].hooked \ runs[r].uploaded :
              /\ k \in runs[r].failed
              /\ \A n \in 1..Len(store) : store[n].audio_id # runs[r].urls[k]

\* C3: in a batch call the tool could start, the failure of one item at any
\* step does not end the batch: every url of the batch is taken by the tool,
\* and the hook ran for every item that was transcoded.
C3_SiblingsStillProcessed ==
    \A r \in RunIds :
        (runs[r].pc = "done" /\ runs[r].batchEnd \in {"returned", "item_error"}) =>
            /\ runs[r].attempted = 1..Len(runs[r].urls)
            /\ runs[r].transcoded \subseteq runs[r].hooked

\* C3 witness: the first item failed in the hook after its upload, and the
\* second item was still downloaded, transcoded and its hook run to the end
C3_Witness ==
    \E r \in RunIds :
        /\ Completed(r)
        /\ 1 \in runs[r].failed \cap runs[r].uploaded
        /\ 2 \in Succeeded(r)

\* C4: a completed run returns a summary with one outcome per dispatched
\* candidate, and every failed item is in it with its source id as a failure.
C4_SummaryCounts ==
    \A r \in RunIds :
        Completed(r) =>
            /\ Len(runs[r].summary) = Len(runs[r].urls)
            /\ \A k \in runs[r].failed :
                  \E n \in 1..Len(runs[r].summary) :
                      /\ runs[r].summary[n].source_id = runs[r].urls[k]
                      /\ ~runs[r].summary[n].ok

(***************************************************************************)
(* Claims about filter_duplicate (SpecFilter)                              *)
(***************************************************************************)
StoredIds(rows) == {rows[i].audio_id : i \in 1..Len(rows)}

\* the indices of the candidates whose source id no row of the store carries
KeptIndices == {i \in 1..Len(dedup.candidates) :
                   dedup.candidates[i].id \notin StoredIds(dedup.store0)}

\* C5: filter_duplicate(C) is exactly the order-preserving subsequence of C made
\* of the candidates whose source id is not in the store: it has one element per
\* such candidate, and the k-th such candidate of C is its k-th element.
C5_FilterIsSubsequence ==
    dedup.pc \in {"filtered", "synced", "refiltered"} =>
        /\ Len(dedup.out1) = Cardinality(KeptIndices)
        /\ \A j \in KeptIndices :
              dedup.out1[Cardinality({i \in KeptIndices : i <= j})]
                  = dedup.candidates[j]

\* C5 witness: a call that removed a stored candidate and kept two candidates
\* of different ids
C5_Witness ==
    /\ dedup.pc = "filtered"
    /\ Len(dedup.out1) = 2
    /\ Len(dedup.candidates) = 3
    /\ dedup.out1[1].id # dedup.out1[2].id

\* C6: once the sink holds a record for every candidate of Filter(C), Filter
\* applied to Filter(C) returns the empty sequence.
C6_SecondFilterEmpty == dedup.pc = "refiltered" => dedup.out2 = <<>>

\* C6 witness: the second call had candidates to remove
C6_Witness == dedup.pc = "refiltered" /\ Len(dedup.out1) >= 2

\* C7: a candidate whose source id matches only soft-deleted records is kept
\* by filter_duplicate.
C7_SoftDeletedIgnored ==
    dedup.pc = "filtered" =>
        \A i \in 1..Len(dedup.candidates) :
            LET id == dedup.candidates[i].id
                matching == {k \in 1..Len(dedup.store0) :
                                dedup.store0[k].audio_id = id}
            IN  (matching # {} /\ \A k \in matching : dedup.store0[k].is_deleted)
                    => \E n \in 1..Len(dedup.out1) :
                          dedup.out1[n] = dedup.candidates[i]

(***************************************************************************)
(* Claims about youtube_search (SpecSearch)                                *)
(***************************************************************************)
\* the calendar day the specification resolves for an entry: the explicit
\* upload date when there is one, else the day of the raw timestamp
HasDay(v) == v.upload_date # None \/ v.timestamp # None
DayOf(v) ==
    IF v.upload_date # None THEN v.upload_date[1]
    ELSE v.timestamp[1] \div SecondsPerDay

WindowGiven ==
    search.upload_after.kind = "date" /\ search.upload_before.kind = "date"

\* C8: youtube_search never returns an entry whose live_status is is_live or
\* is_upcoming, whatever its upload date.
C8_NoLiveEntries ==
    search.pc = "returned" =>
        \A k \in 1..Len(search.result) :
            search.result[k].live_status \notin {"is_live", "is_upcoming"}

\* C8 witness: the provider listed an upcoming entry dated inside the window
\* next to an entry that was returned
C8_Witness ==
    /\ search.pc = "returned"
    /\ Len(search.result) = 1
    /\ \E k \in 1..Len(search.provider.entries) :
          LET v == search.provider.entries[k]
          IN  /\ v.live_status = "is_upcoming"
              /\ v.upload_date = Some(0)
              /\ search.upload_after.kind = "empty"
              /\ search.upload_before.kind = "empty"

\* C9: with both ends of the window given in 8-digit form, youtube_search never
\* returns an entry whose upload day is before upload_after or after
\* upload_before.
C9_InsideWindow ==
    (search.pc = "returned" /\ WindowGiven) =>
        \A k \in 1..Len(search.result) :
            /\ HasDay(search.result[k])
            /\ DayOf(search.result[k]) >= search.upload_after.day
            /\ DayOf(search.result[k]) <= search.upload_before.day

\* C9 witness: of two dated entries that are not live, the one after
\* upload_before was dropped and the one inside the window returned
C9_Witness ==
    /\ search.pc = "returned"
    /\ WindowGiven
    /\ Len(search.provider.entries) = 2
    /\ Len(search.result) = 1
    /\ \E k \in 1..2 :
          LET v == search.provider.entries[k]
          IN  /\ v.live_status = "not_live"
              /\ HasDay(v)
              /\ DayOf(v) > search.upload_before.day

\* C10: every entry that is not live and whose resolved upload date is the day
\* upload_after or the day upload_before (the window not being empty) is
\* returned, whether the date came from upload_date or from the timestamp.
C10_BoundaryInclusive ==
    (search.pc = "returned" /\ WindowGiven
        /\ search.upload_after.day <= search.upload_before.day) =>
        \A k \in 1..Len(search.provider.entries) :
            LET v == search.provider.entries[k]
            IN  (/\ ~IsLive(v)
                 /\ ResolveDate(v) # None
                 /\ DateOf(ResolveDate(v)[1]) \in
                        {search.upload_after.day, search.upload_before.day})
                    => \E n \in 1..Len(search.result) :
                          search.result[n] = WithPlatform(v)

(***************************************************************************)
(* Claims about the stages of a run and its failures (Spec)                *)
(***************************************************************************)
\* how many times lines 120-148 of post_hook were entered for item k of run r
TimesHandled(r, k) ==
    Cardinality({n \in 1..Len(runs[r].handled) : runs[r].handled[n] = k})

\* C11: for every item of a run for which the tool reported "finished", the
\* completion handling (upload, then insert) was executed exactly once,
\* however many status events the tool emitted for the item.
C11_HandledOncePerItem ==
    \A r \in RunIds :
        \A k \in runs[r].hooked : TimesHandled(r, k) = 1

\* C12: a run whose batch call ended because the tool could not be invoked
\* ends failed, with the error raised to the task system, and not as a success.
C12_InvocationErrorFailsRun ==
    \A r \in RunIds :
        runs[r].batchEnd = "invocation_error" =>
            /\ runs[r].pc = "failed"
            /\ runs[r].result = "raised"

\* C13: when the provider fails during discovery, the run ends failed with the
\* error of youtube_search, holds no candidate list, and has made no
\* deduplication query, download, upload or record insert.
C13_DiscoveryErrorFailsRun ==
    \A r \in RunIds :
        runs[r].providerFailed =>
            /\ runs[r].pc = "failed"
            /\ runs[r].result = "raised"
            /\ runs[r].failedAt = "youtube_search"
            /\ runs[r].videoEntries = <<>>
            /\ runs[r].uniqueVideos = <<>>
            /\ runs[r].queries = 0
            /\ runs[r].urls = <<>>
            /\ runs[r].attempted = {}
            /\ runs[r].handled = <<>>
            /\ runs[r].uploaded = {}
            /\ runs[r].coroutines = {}
            /\ \A n \in 1..Len(store) : store[n].by # r

\* C13 witness: a run over a table that holds rows, ended by the provider's error
C13_Witness ==
    \E r \in RunIds :
        /\ runs[r].providerFailed
        /\ runs[r].pc = "failed"
        /\ Len(store) >= 1

\* the place of a position of task_crawler in the order of the stages: Idle,
\* WorkspacePrepared, Discovering done, Deduplicating done, Downloading, and
\* the two ends Completed and Failed
StageRank(pc) ==
    CASE pc = "off" -> 0
      [] pc = "idle" -> 0
      [] pc = "prepared" -> 1
      [] pc = "searched" -> 2
      [] pc = "filtered" -> 3
      [] pc \in {"batch", "hooks"} -> 4
      [] pc \in {"done", "failed"} -> 5

IdsOf(entries) == [k \in 1..Len(entries) |-> entries[k].id]

\* one step of a youtube run keeps to the order of the stages
StageStep(r) ==
    LET a == StageRank(runs[r].pc)
        b == StageRank(runs'[r].pc)
    IN  /\ \/ runs'[r].pc = runs[r].pc
           \/ a = 4 /\ b = 4
           \/ a < 4 /\ b = a + 1
           \/ a < 5 /\ runs'[r].pc = "failed"
           \/ a = 4 /\ runs'[r].pc = "done"
        /\ a = 5 => runs'[r] = runs[r]
        /\ a # 1 => runs'[r].videoEntries = runs[r].videoEntries
        /\ a # 2 => runs'[r].uniqueVideos = runs[r].uniqueVideos
        /\ a # 3 => runs'[r].urls = runs[r].urls
        /\ (a = 3 /\ b = 4) =>
              /\ runs'[r].urls = IdsOf(runs[r].uniqueVideos)
              /\ \A k \in 1..Len(runs'[r].urls) :
                    /\ \E n \in 1..Len(runs[r].videoEntries) :
                          runs[r].videoEntries[n].id = runs'[r].urls[k]
                    /\ runs'[r].urls[k] \notin StoredIds(store)
        /\ runs'[r].attempted \subseteq 1..Len(runs'[r].urls)
        /\ runs'[r].attempted # runs[r].attempted => a = 4

\* C14: every youtube run goes through Idle, WorkspacePrepared, Discovering,
\* Deduplicating and Downloading in this order and ends Completed or Failed;
\* no stage starts before the one before it has finished, none is entered
\* twice, and a download is dispatched only for a candidate that discovery
\* returned and the deduplicator kept in the same run.
C14_StagesInOrder ==
    [][\A r \in RunIds : runs[r].platform = "youtube" => StageStep(r)]_vars

\* C14 witness: a run that went through every stage to its end, in which
\* discovery returned two candidates and the deduplicator kept one, which was
\* the only one dispatched
C14_Witness ==
    \E r \in RunIds :
        /\ Completed(r)
        /\ Len(runs[r].videoEntries) = 2
        /\ Len(runs[r].urls) = 1
        /\ runs[r].attempted = {1}

\* C15: when a run has prepared its workspace without failing, the workspace
\* directory exists and is empty: nothing that was under it before the run is
\* still there.
C15_WorkspaceEmptyWhenPrepared ==
    \A r \in RunIds :
        runs[r].pc = "prepared" =>
            /\ fs.exists
            /\ ~fs.stale
            /\ ~fs.wavsDir
            /\ fs.wavs = {}

\* C16: a run whose platform is not "youtube" that came to its end returned
\* success and was a no-op: the workspace directory is as it was when the run
\* started, the run wrote no row and uploaded nothing, and it made no
\* discovery, deduplication query or download.
C16_OtherPlatformNoop ==
    \A r \in RunIds :
        (runs[r].platform # "youtube" /\ runs[r].pc = "done") =>
            /\ runs[r].result = "True"
            /\ fs = runs[r].fsAtStart
            /\ \A n \in 1..Len(store) : store[n].by # r
            /\ runs[r].uploaded = {}
            /\ runs[r].videoEntries = <<>>
            /\ runs[r].queries = 0
            /\ runs[r].attempted = {}

(***************************************************************************)
(* Claims about the sink (SpecFilter)                                      *)
(***************************************************************************)
\* no two rows that are not deleted carry the same source id
UniqueAmongLive(rows) ==
    \A i, j \in 1..Len(rows) :
        (i # j /\ ~rows[i].is_deleted /\ ~rows[j].is_deleted)
            => rows[i].audio_id # rows[j].audio_id

\* C17: source ids are unique among the records that are not deleted, also
\* when two writers work on the same candidates: starting from a table with
\* this property and candidates of different ids, the sink refuses a record
\* whose source id a record that is not deleted already carries.
C17_UniqueSourceIds ==
    (/\ UniqueAmongLive(dedup.store0)
     /\ \A i, j \in 1..Len(dedup.candidates) :
           i # j => dedup.candidates[i].id # dedup.candidates[j].id)
        => UniqueAmongLive(store)

(***************************************************************************)
(* Claims about the completion callback and empty runs (Spec)              *)
(***************************************************************************)
\* C18: the audio_url of every record the completion callback created is not
\* empty and is the key under which the callback uploaded the file of that
\* item, so that it names an object of the object store.
C18_AudioUrlIsUploadKey ==
    \A r \in RunIds :
        \A rec \in runs[r].coroutines :
            /\ rec.audio_url # <<>>
            /\ rec.audio_url = UploadKey(rec.audio_id)
            /\ rec.audio_url \in objects

\* C19: when the persist step of an item fails after its upload, the object
\* stays in the object store, the store holds no record of the item, and the
\* run reports the item as a failure.
C19_PersistFailureReported ==
    \A r \in RunIds :
        Completed(r) =>
            \A k \in runs[r].uploaded \cap runs[r].failed :
                /\ UploadKey(runs[r].urls[k]) \in objects
                /\ RowsBy(r, runs[r].urls[k]) = {}
                /\ \E n \in 1..Len(runs[r].summary) :
                      /\ runs[r].summary[n].source_id = runs[r].urls[k]
                      /\ ~runs[r].summary[n].ok

\* the deduplicator of run r returned, and returned no candidate (discovery
\* had found nothing, or every candidate was in the store)
NothingToDownload(r) ==
    /\ runs[r].platform = "youtube"
    /\ runs[r].queries = 1
    /\ runs[r].failedAt # "filter_duplicate"
    /\ runs[r].uniqueVideos = <<>>

TimesTaken(r, k) ==
    Cardinality({n \in 1..Len(runs[r].taken) : runs[r].taken[n] = k})

\* C21: the candidates that survived deduplication are handed to the tool in
\* one batch call, one url per candidate; the tool takes no item twice, also
\* after the item failed, and when the batch call returns it has taken every
\* item exactly once.
C21_DispatchedOnce ==
    \A r \in RunIds :
        /\ runs[r].batches <= 1
        /\ runs[r].batches = 1 => runs[r].urls = IdsOf(runs[r].uniqueVideos)
        /\ \A k \in 1..Len(runs[r].urls) : TimesTaken(r, k) <= 1
        /\ \A n \in 1..Len(runs[r].taken) : runs[r].taken[n] \in 1..Len(runs[r].urls)
        /\ Completed(r) => \A k \in 1..Len(runs[r].urls) : TimesTaken(r, k) = 1

\* C21 witness: a batch of two candidates came back, the first item having
\* failed and the second succeeded
C21_Witness ==
    \E r \in RunIds :
        /\ Completed(r)
        /\ Len(runs[r].urls) = 2
        /\ 1 \in runs[r].failed
        /\ 2 \in Succeeded(r)
        /\ runs[r].taken = <<1, 2>>

(***************************************************************************)
(* Claims about termination (SpecHang)                                     *)
(***************************************************************************)
\* C22: every run eventually ends, completed or failed, also when the
\* provider call or the download of an item never returns.
C22_RunEventuallyEnds ==
    <>(\A r \in ActiveRuns : runs[r].pc \in {"done", "failed"})

(***************************************************************************)
(* Claims about two runs on one workspace (SpecTwoRuns)                    *)
(***************************************************************************)
\* run r is in the hook of an item whose transcoded file is not in the workspace
FileGone(r) ==
    /\ runs[r].pc = "hooks"
    /\ runs[r].urls[runs[r].i] \notin fs.wavs

\* C23: two runs on the same workspace path race on its removal: a file one
\* run has transcoded and not yet uploaded can be gone when its hook runs,
\* only because a workspace reset of the other run removed it, and the upload
\* of that item then fails.
C23_ResetRaceFailsUpload ==
    [][\A r \in RunIds :
          (FileGone(r) /\ runs'[r].handled # runs[r].handled) =>
              /\ runs'[r].uploaded = runs[r].uploaded
              /\ objects' = objects
              /\ runs[r].i \in runs'[r].failed
              /\ \E o \in RunIds \ {r} :
                    runs[r].urls[runs[r].i] \in runs[o].removed]_vars

\* C23 witness: the hook of a run found the file of a transcoded item removed
\* by the other run's reset, and the item was not uploaded
C23_Witness ==
    \E r \in RunIds, o \in RunIds :
        /\ r # o
        /\ \E k \in runs[r].lost :
              /\ k \in runs[r].transcoded
              /\ k \in runs[r].failed
              /\ k \notin runs[r].uploaded
              /\ runs[r].urls[k] \in runs[o].removed
              /\ runs[r].urls[k] \notin objects

(***************************************************************************)
(* Claims about what a run leaves alone (Spec)                             *)
(***************************************************************************)
\* C24: a run only adds records: no step of it removes a record of the store
\* or changes a field of one, whether the record was there before the run or
\* was written by it.
C24_RecordsOnlyAdded ==
    [][/\ Len(store') >= Len(store)
       /\ \A n \in 1..Len(store) : store'[n] = store[n]]_vars

\* C24 witness: a run over a table that holds records came to its end after
\* the hook of an item ran through, and the records are there
C24_Witness ==
    \E r \in RunIds :
        /\ Completed(r)
        /\ Succeeded(r) # {}
        /\ Len(store) = MaxRows
        /\ \A n \in 1..Len(store) : store[n].by = 0

\* C25: a run whose workspace directory could not be cleared, or could not be
\* made, ends failed with the error raised to the task system, and discovery
\* is never called in it.
C25_WorkspaceErrorFailsRun ==
    \A r \in RunIds :
        (runs[r].clearFailed \/ runs[r].failedAt = "create_application") =>
            /\ runs[r].pc = "failed"
            /\ runs[r].result = "raised"
            /\ runs[r].failedAt = "create_application"
            /\ runs[r].videoEntries = <<>>
            /\ ~runs[r].providerFailed

\* C26: a call of the completion hook with a status other than "finished"
\* returns without error and does nothing: lines 120-148 are not entered, so
\* nothing is uploaded, no session is opened and no record is built or
\* inserted; the object store and the metadata store stay as they are.
C26_OtherStatusIgnored ==
    [][\A r \in RunIds :
          (/\ runs'[r].events = runs[r].events + 1
           /\ runs'[r].lastStatus # "finished") =>
              /\ store' = store
              /\ objects' = objects
              /\ runs'[r].pc = "hooks"
              /\ runs'[r].handled = runs[r].handled
              /\ runs'[r].uploaded = runs[r].uploaded
              /\ runs'[r].coroutines = runs[r].coroutines
              /\ runs'[r].failed = runs[r].failed
              /\ runs'[r].i = runs[r].i]_vars

\* C26 witness: after the item was handled on "finished", the hook was called
\* with another status and the tool is still on the item
C26_Witness ==
    \E r \in RunIds :
        /\ runs[r].pc = "hooks"
        /\ runs[r].lastStatus = "started"
        /\ runs[r].finishedSeen
        /\ runs[r].uploaded = {runs[r].i}
        /\ objects # {}

(***************************************************************************)
(* Claims about the dates and the order of youtube_search (SpecSearch)     *)
(***************************************************************************)
\* the upload date of an entry as the rule states it: the upload-date field
\* when it is present, else the timestamp when it is present, whatever its
\* value, else none
StatedDate(v) ==
    IF v.upload_date # None THEN Some(strptime(v.upload_date[1]))
    ELSE IF v.timestamp # None THEN Some(utcfromtimestamp(v.timestamp[1]))
    ELSE None

\* C27: an entry that is not live or upcoming is dated by its upload-date
\* field when present, else by its timestamp when present, 0 included, and
\* is skipped for lack of a date only when both are absent: it is returned
\* exactly when that date exists and is inside the window.
C27_DateResolution ==
    search.pc = "returned" =>
        \A k \in 1..Len(search.provider.entries) :
            LET v == search.provider.entries[k]
            IN  ~IsLive(v) =>
                    ((\E n \in 1..Len(search.result) :
                          search.result[n] = WithPlatform(v))
                     <=> (/\ StatedDate(v) # None
                          /\ ~OutsideWindow(StatedDate(v)[1],
                                            WindowAfter(search.upload_after),
                                            WindowBefore(search.upload_before))))

\* C28: what youtube_search returns is a subsequence of the provider's
\* entries in the provider's order: every returned entry is an entry of the
\* response, and two returned entries stand in the order they have there.
C28_ProviderOrderKept ==
    search.pc = "returned" =>
        \E f \in [1..Len(search.result) -> 1..Len(search.provider.entries)] :
            /\ \A n \in 1..Len(search.result) :
                  search.result[n] = WithPlatform(search.provider.entries[f[n]])
            /\ \A m, n \in 1..Len(search.result) : m < n => f[m] < f[n]

\* C28 witness: two entries of a response were returned
C28_Witness ==
    /\ search.pc = "returned"
    /\ Len(search.result) = 2
    /\ search.result[1].id # search.result[2].id
    /\ search.provider.entries[1].upload_date # search.provider.entries[2].upload_date

====
